---- MODULE Spec2Model ----
(***************************************************************************)
(* Page interaction controller of the portfolio page (src/script.js):      *)
(* navigation highlighting, mobile menu, smooth-scroll anchors, reveal     *)
(* animations and the two debounced listeners, as one state machine.       *)
(* Lengths are CSS pixels, times are milliseconds.                         *)
(***************************************************************************)
EXTENDS Integers, Sequences, FiniteSets, TLC

(* ---------- program constants ---------- *)
NavOffset == 100
ScrollWait == 100
ResizeWait == 250
AnimDelay == 100
Breakpoint == 768
ViewportPct == 80

(* ---------- bounds of the model ---------- *)
MaxScrollSteps == 5
MaxLinks == 2
MaxSched == 2

Grid == NavOffset
TickMs == ScrollWait \div 2
NoTimer == << >>
NoCall == 0 - 1000

ScrollPositions == { Grid * k : k \in 0..MaxScrollSteps }
Widths == { 600, 900 }
ViewHeights == { 4 * Grid, 8 * Grid }
NavbarHeight == Grid
Years == { 2026 }
Keys == { "Escape", "Enter" }

(* ---------- the document the script is loaded into ---------- *)
SectionIds == << "home", "about" >>
Hrefs == { "#", "#home", "#about", "#blog" }

VARIABLES
    phase,          \* "loading" until init() has run, then "ready"
    sections,       \* document.querySelectorAll('section'): [id, offsetTop, clientHeight]
    navLinks,       \* document.querySelectorAll('.nav-link'): their href attributes
    present,        \* which of menuToggle, navLinksContainer, currentYearSpan are not null
    linkActive,     \* per nav-link: classList contains 'active'
    ariaExpanded,   \* menuToggle's aria-expanded attribute
    navActive,      \* navLinksContainer.classList contains 'active'
    bodyOverflow,   \* document.body.style.overflow
    scrollY,        \* window.scrollY
    innerWidth,     \* window.innerWidth
    urlHash,        \* fragment of the address bar
    scrollTimer,    \* pending timeouts of the scroll debounce: ms left on each, oldest first
    resizeTimer,    \* pending timeouts of the resize debounce: ms left on each, oldest first
    innerHeight,    \* window.innerHeight
    scrollDest,     \* destination of a smooth scroll in progress, NoCall if none
    elems,          \* per decorative element: animated class, inline styles, pending timeouts
    yearText,       \* currentYearSpan.textContent
    lastOp,         \* history: the last operation that ran
    runLen,         \* history: how many times in a row lastOp ran (capped at 2)
    before,         \* history: observable state before lastOp
    before2,        \* history: observable state before the run of lastOp began
    calls,          \* history: what lastOp asked of the browser (scrollTo, pushState)
    thrown,         \* history: a listener of lastOp ended in an uncaught TypeError
    burst           \* history: ms since the last scroll event, scroll events of the
                    \* current burst, handler runs since the last scroll event and
                    \* since the last resize event

vars == << phase, sections, navLinks, present, linkActive, ariaExpanded, navActive,
           bodyOverflow, scrollY, innerWidth, urlHash, scrollTimer, resizeTimer,
           innerHeight, scrollDest, elems, yearText,
           lastOp, runLen, before, before2, calls, thrown, burst >>

(* ---------- mobile menu (script.js 65-84) ---------- *)
Menu == [aria |-> ariaExpanded, active |-> navActive, overflow |-> bodyOverflow]

SetMenu(m) ==
    /\ ariaExpanded' = m.aria
    /\ navActive' = m.active
    /\ bodyOverflow' = m.overflow

\* setAttribute stringifies the boolean it is given
BoolToString(b) == IF b THEN "true" ELSE "false"

\* slip: the class is no longer toggled with the attribute
toggleMobileMenuNoClass(m) ==
    LET isExpanded == (m.aria = "true") IN
    [aria     |-> BoolToString(~isExpanded),
     active   |-> m.active,
     overflow |-> IF isExpanded THEN "" ELSE "hidden"]

\* slip: the scroll lock is set whichever way the menu goes
toggleMobileMenuAlwaysLock(m) ==
    LET isExpanded == (m.aria = "true") IN
    [aria     |-> BoolToString(~isExpanded),
     active   |-> ~m.active,
     overflow |-> "hidden"]

toggleMobileMenu(m) ==
    LET isExpanded == (m.aria = "true") IN
    [aria     |-> BoolToString(~isExpanded),
     active   |-> ~m.active,
     overflow |-> IF isExpanded THEN "" ELSE "hidden"]

\* slip: classList.toggle in place of classList.remove
closeMobileMenuToggles(m) ==
    [aria |-> "false", active |-> ~m.active, overflow |-> ""]

\* slip: the body's overflow style is not reset
closeMobileMenuKeepsLock(m) ==
    [aria |-> "false", active |-> FALSE, overflow |-> m.overflow]

closeMobileMenu(m) ==
    [aria |-> "false", active |-> FALSE, overflow |-> ""]

\* slip: the negation before navLinksContainer.contains is lost
documentClickInside(m, target) ==
    IF target = "menu" /\ target # "toggle" /\ m.active
    THEN closeMobileMenu(m)
    ELSE m

\* slip: the menuToggle.contains test is left out
documentClickNoToggle(m, target) ==
    IF target # "menu" /\ m.active
    THEN closeMobileMenu(m)
    ELSE m

\* document-level click listener; target is where the click landed:
\* "menu" (inside navLinksContainer), "toggle" (inside menuToggle) or "outside"
documentClick(m, target) ==
    IF target # "menu" /\ target # "toggle" /\ m.active
    THEN closeMobileMenu(m)
    ELSE m

documentKeydown(m, key) ==
    IF key = "Escape" /\ m.active THEN closeMobileMenu(m) ELSE m

\* slip: the comparison with the breakpoint is turned around
resizeHandlerBelow(m, width) ==
    IF width < Breakpoint THEN closeMobileMenu(m) ELSE m

resizeHandler(m, width) ==
    IF width > Breakpoint THEN closeMobileMenu(m) ELSE m

MenuClosed(m) == m.aria = "false" /\ ~m.active /\ m.overflow = ""

(* ---------- navigation highlighting (script.js 45-63) ---------- *)
RECURSIVE ScanSections(_, _, _, _)
ScanSections(secs, y, i, current) ==
    IF i > Len(secs) THEN current
    ELSE LET sectionTop == secs[i].offsetTop - NavOffset
             sectionHeight == secs[i].clientHeight
         IN ScanSections(secs, y, i + 1,
                IF y >= sectionTop /\ y < sectionTop + sectionHeight
                THEN secs[i].id ELSE current)

\* slip: the first matching section is kept, not the last
RECURSIVE ScanSectionsFirst(_, _, _, _)
ScanSectionsFirst(secs, y, i, current) ==
    IF i > Len(secs) THEN current
    ELSE LET sectionTop == secs[i].offsetTop - NavOffset
             sectionHeight == secs[i].clientHeight
         IN ScanSectionsFirst(secs, y, i + 1,
                IF current = "" /\ y >= sectionTop /\ y < sectionTop + sectionHeight
                THEN secs[i].id ELSE current)

\* slip: the scan stops at the first match
updateActiveNavLinkFirst(secs, links, active, y) ==
    LET current == ScanSectionsFirst(secs, y, 1, "") IN
    [i \in 1..Len(links) |-> links[i] = "#" \o current]

\* slip: the old 'active' classes are not removed
updateActiveNavLinkKeep(secs, links, active, y) ==
    LET current == ScanSections(secs, y, 1, "") IN
    [i \in 1..Len(links) |-> active[i] \/ links[i] = "#" \o current]

updateActiveNavLink(secs, links, active, y) ==
    LET current == ScanSections(secs, y, 1, "") IN
    [i \in 1..Len(links) |-> links[i] = "#" \o current]

(* ---------- reveal animation (script.js 33-39, 90-107) ---------- *)
\* bounding boxes (document coordinates) of the elements matched by
\* '.skill-category, .project-card, .timeline-item, .contact-card'
AnimatedElements ==
    << [top |-> 2 * Grid, height |-> Grid], [top |-> 6 * Grid, height |-> Grid] >>

Min(a, b) == IF a < b THEN a ELSE b
Max(a, b) == IF a > b THEN a ELSE b

isInViewport(el, y, h) ==
    LET rectTop == el.top - y
        rectBottom == rectTop + el.height
    IN  rectTop * 100 <= h * ViewportPct /\ rectBottom >= 0

\* one element's share of animateOnScroll; a timeout is an entry of
\* 'timers' holding the ms left until its callback runs
\* slip: the 'animated' class is not added when the timeout is set
animateElementUnmarked(el, st, y, h) ==
    IF isInViewport(el, y, h) /\ ~st.animated
    THEN [st EXCEPT !.opacity = "0",
                    !.transform = "translateY(20px)",
                    !.timers = IF Len(@) < MaxSched THEN Append(@, AnimDelay) ELSE @,
                    !.sched = Min(@ + 1, MaxSched)]
    ELSE st

\* slip: the element is hidden and marked but no timeout is set
animateElementNoTimeout(el, st, y, h) ==
    IF isInViewport(el, y, h) /\ ~st.animated
    THEN [st EXCEPT !.animated = TRUE,
                    !.opacity = "0",
                    !.transform = "translateY(20px)",
                    !.sched = Min(@ + 1, MaxSched)]
    ELSE st

animateElement(el, st, y, h) ==
    IF isInViewport(el, y, h) /\ ~st.animated
    THEN [st EXCEPT !.animated = TRUE,
                    !.opacity = "0",
                    !.transform = "translateY(20px)",
                    !.timers = IF Len(@) < MaxSched THEN Append(@, AnimDelay) ELSE @,
                    !.sched = Min(@ + 1, MaxSched)]
    ELSE st

animateOnScroll(els, sts, y, h) ==
    [e \in DOMAIN els |-> animateElement(els[e], sts[e], y, h)]

\* the timeout callback of lines 100-104
revealElement(st) ==
    [st EXCEPT !.transition = "opacity 0.6s ease, transform 0.6s ease",
               !.opacity = "1",
               !.transform = "translateY(0)",
               !.timers = Tail(@),
               !.fired = Min(@ + 1, MaxSched)]

FreshElement ==
    [animated |-> FALSE, opacity |-> "", transform |-> "", transition |-> "",
     timers |-> << >>, sched |-> 0, fired |-> 0]

(* ---------- smooth-scroll anchors (script.js 122-152) ---------- *)
NoPush == ""

\* document.querySelector('#id'): index of the first section carrying the id, 0 if none
querySelector(secs, href) ==
    LET hits == { i \in 1..Len(secs) : "#" \o secs[i].id = href } IN
    IF hits = {} THEN 0 ELSE CHOOSE i \in hits : \A j \in hits : i <= j

\* slip: pushState also for '#home'
anchorClickAlwaysPush(secs, m, href) ==
    IF href = "#"
    THEN [menu |-> m, scrollTo |-> NoCall, pushState |-> NoPush, prevented |-> FALSE]
    ELSE LET targetElement == querySelector(secs, href) IN
         IF targetElement # 0
         THEN [menu |-> closeMobileMenu(m),
               scrollTo |-> secs[targetElement].offsetTop - NavbarHeight,
               pushState |-> href,
               prevented |-> TRUE]
         ELSE [menu |-> m, scrollTo |-> NoCall, pushState |-> NoPush, prevented |-> TRUE]

\* the anchor's click listener: the menu it leaves, the scrollTo and pushState
\* calls it makes, and whether it called preventDefault
anchorClick(secs, m, href) ==
    IF href = "#"
    THEN [menu |-> m, scrollTo |-> NoCall, pushState |-> NoPush, prevented |-> FALSE]
    ELSE LET targetElement == querySelector(secs, href) IN
         IF targetElement # 0
         THEN [menu |-> closeMobileMenu(m),
               scrollTo |-> secs[targetElement].offsetTop - NavbarHeight,
               pushState |-> IF href # "#home" THEN href ELSE NoPush,
               prevented |-> TRUE]
         ELSE [menu |-> m, scrollTo |-> NoCall, pushState |-> NoPush, prevented |-> TRUE]

(* ---------- the same listeners when an element is missing ---------- *)
\* querySelector and getElementById give null for a missing element; a
\* method call on null throws a TypeError, which ends the listener there
\* and leaves what it had written so far.
Whole == [toggle |-> TRUE, container |-> TRUE, year |-> TRUE]
Presences == [toggle : BOOLEAN, container : BOOLEAN, year : BOOLEAN]

Done(m) == [menu |-> m, threw |-> FALSE]
Threw(m) == [menu |-> m, threw |-> TRUE]

\* lines 69-74: menuToggle is used first, navLinksContainer second
toggleMobileMenuOn(p, m) ==
    IF ~p.toggle THEN Threw(m)
    ELSE IF ~p.container THEN Threw([m EXCEPT !.aria = toggleMobileMenu(m).aria])
    ELSE Done(toggleMobileMenu(m))

\* lines 81-83
closeMobileMenuOn(p, m) ==
    IF ~p.toggle THEN Threw(m)
    ELSE IF ~p.container THEN Threw([m EXCEPT !.aria = closeMobileMenu(m).aria])
    ELSE Done(closeMobileMenu(m))

\* lines 170-176: navLinksContainer.contains, then menuToggle.contains
\* unless the first test already failed
documentClickOn(p, m, target) ==
    IF p.toggle /\ p.container THEN Done(documentClick(m, target))
    ELSE IF ~p.container THEN Threw(m)
    ELSE IF target = "menu" THEN Done(m)
    ELSE Threw(m)

\* lines 179-183: navLinksContainer is looked at only for the Escape key
documentKeydownOn(p, m, key) ==
    IF p.toggle /\ p.container THEN Done(documentKeydown(m, key))
    ELSE IF key # "Escape" THEN Done(m)
    ELSE IF ~p.container THEN Threw(m)
    ELSE IF m.active THEN closeMobileMenuOn(p, m)
    ELSE Done(m)

\* lines 186-190
resizeHandlerOn(p, m, width) ==
    IF p.toggle /\ p.container THEN Done(resizeHandler(m, width))
    ELSE IF width > Breakpoint THEN closeMobileMenuOn(p, m)
    ELSE Done(m)

\* lines 124-150: closeMobileMenu() comes before scrollTo and pushState
anchorClickOn(p, secs, m, href) ==
    LET whole == anchorClick(secs, m, href) IN
    IF (p.toggle /\ p.container) \/ href = "#" \/ querySelector(secs, href) = 0
    THEN [menu |-> whole.menu, scrollTo |-> whole.scrollTo, pushState |-> whole.pushState,
          prevented |-> whole.prevented, threw |-> FALSE]
    ELSE [menu |-> closeMobileMenuOn(p, m).menu, scrollTo |-> NoCall, pushState |-> NoPush,
          prevented |-> TRUE, threw |-> TRUE]

\* the browser keeps the scroll offset inside the scrollable range
Clamp(y) == Max(0, Min(y, MaxScrollSteps * Grid))

(* ---------- debounce (script.js 16-26) and timeouts ---------- *)
\* A debounced function owns the timeouts it has set and not yet seen fire;
\* 'timeout' is the handle of the newest one.
\* slip: the pending timeout is not cleared before the new one is set
debounceNoClear(timer, wait) ==
    IF Len(timer) < MaxSched THEN Append(timer, wait) ELSE timer

\* slip: the pending timeout is cleared and no new one is set
debounceNoSet(timer, wait) == << >>

\* executedFunction: clearTimeout(timeout); timeout = setTimeout(later, wait)
debounce(timer, wait) == << wait >>

\* later: the oldest timeout has fired; clearTimeout(timeout) drops the newest
later(timer) ==
    LET rest == Tail(timer) IN
    IF rest = << >> THEN rest ELSE SubSeq(rest, 1, Len(rest) - 1)

Expired(timer) == timer # << >> /\ Head(timer) = 0
Pending(timer) == timer # << >>
Remaining(t) == Max(0, t - TickMs)
Elapse(timer) == [i \in DOMAIN timer |-> Remaining(timer[i])]

(* ---------- history bookkeeping ---------- *)
Snapshot == [menu |-> Menu, scrollY |-> scrollY, urlHash |-> urlHash,
             innerWidth |-> innerWidth]
NoCalls == [href |-> "", where |-> "", scrollTo |-> NoCall, pushState |-> NoPush]

\* op delivers a scroll event to the debounced listener
Scrolls(op, c) ==
    \/ op = "scroll"
    \/ op = "arrive" /\ Clamp(scrollDest) # scrollY
    \/ op = "clickAnchor" /\ c.href = "#" /\ scrollY # 0

BurstAfter(op, c) ==
    [sinceScroll |-> IF Scrolls(op, c) THEN 0 ELSE burst.sinceScroll,
     scrollEvents |-> IF ~Scrolls(op, c) THEN burst.scrollEvents
                      ELSE IF Pending(scrollTimer) THEN Min(burst.scrollEvents + 1, MaxSched)
                      ELSE 1,
     scrollRuns  |-> IF Scrolls(op, c) THEN 0
                     ELSE IF op = "scrollFire" THEN Min(burst.scrollRuns + 1, MaxSched)
                     ELSE burst.scrollRuns,
     resizeRuns  |-> IF op = "resize" THEN 0
                     ELSE IF op = "resizeFire" THEN Min(burst.resizeRuns + 1, MaxSched)
                     ELSE burst.resizeRuns]

Hist(op, c) ==
    /\ lastOp' = op
    /\ runLen' = IF lastOp = op THEN 2 ELSE 1
    /\ before' = Snapshot
    /\ before2' = IF lastOp = op THEN before ELSE Snapshot
    /\ calls' = c
    /\ burst' = BurstAfter(op, c)

\* operations whose effect no property compares with the state before them
NoSnapshot == [menu |-> [aria |-> "", active |-> FALSE, overflow |-> ""],
               scrollY |-> 0, urlHash |-> "", innerWidth |-> 0]

Note(op) ==
    /\ lastOp' = op
    /\ runLen' = IF lastOp = op THEN 2 ELSE 1
    /\ before' = NoSnapshot
    /\ before2' = NoSnapshot
    /\ calls' = NoCalls
    /\ thrown' = FALSE
    /\ burst' = BurstAfter(op, NoCalls)

HistVars == << lastOp, runLen, before, before2, calls, thrown >>
MenuVars == << ariaExpanded, navActive, bodyOverflow >>
DocVars == << sections, navLinks, present >>

(* ---------- initial state: the document as parsed, before init() ---------- *)
\* The markup is not part of script.js. The menu starts collapsed (no script
\* statement opens it before a user event), nothing is scrolled smoothly and
\* no timeout is pending; section boxes, nav-link hrefs, scroll offset and
\* viewport size are drawn from the sets below.
SectionTops == { 0, 2 * Grid }
SectionGaps == { 2 * Grid, 3 * Grid, 4 * Grid }
FirstHeight == 3 * Grid
SecondHeight == 2 * Grid

Layouts ==
    { << [id |-> SectionIds[1], offsetTop |-> t, clientHeight |-> FirstHeight],
         [id |-> SectionIds[2], offsetTop |-> t + g, clientHeight |-> SecondHeight] >> :
      t \in SectionTops, g \in SectionGaps }

LinkLists == UNION { [1..n -> Hrefs] : n \in 0..MaxLinks }

InitBase(layouts, links, tops) ==
    /\ phase = "loading"
    /\ sections \in layouts
    /\ navLinks \in links
    /\ linkActive \in { [i \in 1..Len(navLinks) |-> i = a] : a \in 0..Min(1, Len(navLinks)) }
    /\ ariaExpanded = "false"
    /\ navActive = FALSE
    /\ bodyOverflow = ""
    /\ scrollY \in tops
    /\ innerWidth \in Widths
    /\ innerHeight \in ViewHeights
    /\ urlHash = ""
    /\ scrollTimer = NoTimer
    /\ resizeTimer = NoTimer
    /\ scrollDest = NoCall
    /\ elems = [e \in DOMAIN AnimatedElements |-> FreshElement]
    /\ yearText = ""
    /\ lastOp = "load"
    /\ runLen = 1
    /\ before = NoSnapshot
    /\ before2 = NoSnapshot
    /\ calls = NoCalls
    /\ thrown = FALSE
    /\ burst = [sinceScroll |-> ScrollWait, scrollEvents |-> 0, scrollRuns |-> 0,
                resizeRuns |-> 0]

\* the document has every element the script looks up
InitWith(layouts, links, tops) ==
    InitBase(layouts, links, tops) /\ present = Whole

Init == InitWith(Layouts, LinkLists, ScrollPositions)

(* ---------- init (script.js 196-215) ---------- *)
\* setCurrentYear: the number is written as text
setCurrentYear(year) == ToString(year)

\* slip: the first pass over nav-links and decorative elements is left out
initNoPass ==
    /\ phase = "loading"
    /\ phase' = "ready"
    /\ \E year \in Years : yearText' = setCurrentYear(year)
    /\ Note("init")
    /\ UNCHANGED << DocVars, MenuVars, linkActive, elems, scrollY, innerWidth, innerHeight,
                    urlHash, scrollTimer, resizeTimer, scrollDest >>

init ==
    /\ phase = "loading"
    /\ phase' = "ready"
    /\ \E year \in Years :
          yearText' = IF present.year THEN setCurrentYear(year) ELSE yearText
    /\ linkActive' = updateActiveNavLink(sections, navLinks, linkActive, scrollY)
    /\ elems' = animateOnScroll(AnimatedElements, elems, scrollY, innerHeight)
    /\ Note("init")
    /\ UNCHANGED << DocVars, MenuVars, scrollY, innerWidth, innerHeight, urlHash,
                    scrollTimer, resizeTimer, scrollDest >>

(* ---------- window.portfolio, the debugging surface (script.js 219-224) ---------- *)
CallToggleMobileMenu ==
    /\ phase = "ready"
    /\ LET r == toggleMobileMenuOn(present, Menu) IN
          SetMenu(r.menu) /\ thrown' = r.threw
    /\ Hist("toggle", NoCalls)
    /\ UNCHANGED << phase, DocVars, linkActive, scrollY, innerWidth, innerHeight, urlHash,
                    scrollTimer, resizeTimer, scrollDest, elems, yearText >>

CallCloseMobileMenu ==
    /\ phase = "ready"
    /\ LET r == closeMobileMenuOn(present, Menu) IN
          SetMenu(r.menu) /\ thrown' = r.threw
    /\ Hist("close", NoCalls)
    /\ UNCHANGED << phase, DocVars, linkActive, scrollY, innerWidth, innerHeight, urlHash,
                    scrollTimer, resizeTimer, scrollDest, elems, yearText >>

CallUpdateActiveNavLink ==
    /\ phase = "ready"
    /\ linkActive' = updateActiveNavLink(sections, navLinks, linkActive, scrollY)
    /\ Note("update")
    /\ UNCHANGED << phase, DocVars, MenuVars, scrollY, innerWidth, innerHeight, urlHash,
                    scrollTimer, resizeTimer, scrollDest, elems, yearText >>

CallAnimateOnScroll ==
    /\ phase = "ready"
    /\ elems' = animateOnScroll(AnimatedElements, elems, scrollY, innerHeight)
    /\ Note("animate")
    /\ UNCHANGED << phase, DocVars, MenuVars, linkActive, scrollY, innerWidth, innerHeight,
                    urlHash, scrollTimer, resizeTimer, scrollDest, yearText >>

(* ---------- click events (script.js 124-150, 165-176) ---------- *)
\* a click on the menu toggle: its own listener, then the document's
ClickToggle ==
    /\ phase = "ready"
    /\ present.toggle
    /\ LET own == toggleMobileMenuOn(present, Menu)
           doc == documentClickOn(present, own.menu, "toggle")
       IN  SetMenu(doc.menu) /\ thrown' = (own.threw \/ doc.threw)
    /\ Hist("clickToggle", NoCalls)
    /\ UNCHANGED << phase, DocVars, linkActive, scrollY, innerWidth, innerHeight, urlHash,
                    scrollTimer, resizeTimer, scrollDest, elems, yearText >>

\* a click on something that is neither an anchor nor the toggle
ClickElsewhere(where) ==
    /\ phase = "ready"
    /\ where = "menu" => present.container
    /\ LET doc == documentClickOn(present, Menu, where) IN
          SetMenu(doc.menu) /\ thrown' = doc.threw
    /\ Hist("clickElsewhere", [NoCalls EXCEPT !.where = where])
    /\ UNCHANGED << phase, DocVars, linkActive, scrollY, innerWidth, innerHeight, urlHash,
                    scrollTimer, resizeTimer, scrollDest, elems, yearText >>

\* a click on an a[href^="#"]: the anchor's listener, then the document's,
\* then the browser's default action unless it was prevented. The default
\* for href="#" is a navigation to the empty fragment: top of the document.
ClickAnchor(href, where) ==
    /\ phase = "ready"
    /\ where = "menu" => present.container /\ \E i \in 1..Len(navLinks) : navLinks[i] = href
    /\ LET r == anchorClickOn(present, sections, Menu, href)
           doc == documentClickOn(present, r.menu, where)
       IN
        /\ SetMenu(doc.menu)
        /\ thrown' = (r.threw \/ doc.threw)
        /\ urlHash' = IF r.pushState # NoPush THEN r.pushState
                      ELSE IF ~r.prevented THEN "" ELSE urlHash
        /\ scrollDest' = IF r.prevented
                         THEN (IF r.scrollTo # NoCall THEN r.scrollTo ELSE scrollDest)
                         ELSE NoCall
        /\ scrollY' = IF r.prevented THEN scrollY ELSE 0
        /\ scrollTimer' = IF ~r.prevented /\ scrollY # 0
                          THEN debounce(scrollTimer, ScrollWait) ELSE scrollTimer
        /\ Hist("clickAnchor", [href |-> href, where |-> where,
                                scrollTo |-> r.scrollTo, pushState |-> r.pushState])
    /\ UNCHANGED << phase, DocVars, linkActive, innerWidth, innerHeight,
                    resizeTimer, elems, yearText >>

(* ---------- keyboard (script.js 179-183) ---------- *)
Keydown(key) ==
    /\ phase = "ready"
    /\ LET r == documentKeydownOn(present, Menu, key) IN
          SetMenu(r.menu) /\ thrown' = r.threw
    /\ Hist("keydown", [NoCalls EXCEPT !.where = key])
    /\ UNCHANGED << phase, DocVars, linkActive, scrollY, innerWidth, innerHeight, urlHash,
                    scrollTimer, resizeTimer, scrollDest, elems, yearText >>

(* ---------- scrolling (script.js 159-162) ---------- *)
\* slip: one 'timeout' shared by the two debounced listeners
ScrollEventShared(y) ==
    /\ phase = "ready"
    /\ y # scrollY
    /\ scrollY' = y
    /\ scrollDest' = NoCall
    /\ scrollTimer' = debounce(scrollTimer, ScrollWait)
    /\ resizeTimer' = NoTimer
    /\ Note("scroll")
    /\ UNCHANGED << phase, DocVars, MenuVars, linkActive, innerWidth, innerHeight, urlHash,
                    elems, yearText >>

\* the user scrolls: a scroll event reaches the debounced listener
ScrollEvent(y) ==
    /\ phase = "ready"
    /\ y # scrollY
    /\ scrollY' = y
    /\ scrollDest' = NoCall
    /\ scrollTimer' = debounce(scrollTimer, ScrollWait)
    /\ Note("scroll")
    /\ UNCHANGED << phase, DocVars, MenuVars, linkActive, innerWidth, innerHeight, urlHash,
                    resizeTimer, elems, yearText >>

\* the smooth scroll started by window.scrollTo reaches its destination
SmoothScrollArrive ==
    /\ phase = "ready"
    /\ scrollDest # NoCall
    /\ scrollY' = Clamp(scrollDest)
    /\ scrollDest' = NoCall
    /\ scrollTimer' = IF Clamp(scrollDest) # scrollY
                      THEN debounce(scrollTimer, ScrollWait) ELSE scrollTimer
    /\ Note("arrive")
    /\ UNCHANGED << phase, DocVars, MenuVars, linkActive, innerWidth, innerHeight, urlHash,
                    resizeTimer, elems, yearText >>

\* 'later' of the scroll debounce: updateActiveNavLink(); animateOnScroll()
ScrollFire ==
    /\ phase = "ready"
    /\ Expired(scrollTimer)
    /\ scrollTimer' = later(scrollTimer)
    /\ linkActive' = updateActiveNavLink(sections, navLinks, linkActive, scrollY)
    /\ elems' = animateOnScroll(AnimatedElements, elems, scrollY, innerHeight)
    /\ Note("scrollFire")
    /\ UNCHANGED << phase, DocVars, MenuVars, scrollY, innerWidth, innerHeight, urlHash,
                    resizeTimer, scrollDest, yearText >>

(* ---------- resizing (script.js 186-190) ---------- *)
ResizeEvent(w, h) ==
    /\ phase = "ready"
    /\ << w, h >> # << innerWidth, innerHeight >>
    /\ innerWidth' = w
    /\ innerHeight' = h
    /\ resizeTimer' = debounce(resizeTimer, ResizeWait)
    /\ Note("resize")
    /\ UNCHANGED << phase, DocVars, MenuVars, linkActive, scrollY, urlHash,
                    scrollTimer, scrollDest, elems, yearText >>

ResizeFire ==
    /\ phase = "ready"
    /\ Expired(resizeTimer)
    /\ resizeTimer' = later(resizeTimer)
    /\ LET r == resizeHandlerOn(present, Menu, innerWidth) IN
          SetMenu(r.menu) /\ thrown' = r.threw
    /\ Hist("resizeFire", NoCalls)
    /\ UNCHANGED << phase, DocVars, linkActive, scrollY, innerWidth, innerHeight, urlHash,
                    scrollTimer, scrollDest, elems, yearText >>

(* ---------- timeouts of animateOnScroll (script.js 100-104) ---------- *)
AnimFire(e) ==
    /\ elems[e].timers # << >>
    /\ Expired(elems[e].timers)
    /\ elems' = [elems EXCEPT ![e] = revealElement(@)]
    /\ Note("animFire")
    /\ UNCHANGED << phase, DocVars, MenuVars, linkActive, scrollY, innerWidth, innerHeight,
                    urlHash, scrollTimer, resizeTimer, scrollDest, yearText >>

(* ---------- passage of time ---------- *)
\* time goes on as long as no timeout is due
Tick ==
    /\ phase = "ready"
    /\ ~Expired(scrollTimer) /\ ~Expired(resizeTimer)
    /\ \A e \in DOMAIN elems : ~Expired(elems[e].timers)
    /\ scrollTimer' = Elapse(scrollTimer)
    /\ resizeTimer' = Elapse(resizeTimer)
    /\ elems' = [e \in DOMAIN elems |-> [elems[e] EXCEPT !.timers = Elapse(@)]]
    /\ burst' = [burst EXCEPT !.sinceScroll = Min(@ + TickMs, ScrollWait)]
    /\ UNCHANGED << phase, DocVars, MenuVars, linkActive, scrollY, innerWidth, innerHeight,
                    urlHash, scrollDest, yearText, HistVars >>

Next ==
    \/ init
    \/ CallToggleMobileMenu
    \/ CallCloseMobileMenu
    \/ CallUpdateActiveNavLink
    \/ CallAnimateOnScroll
    \/ ClickToggle
    \/ \E where \in { "menu", "outside" } : ClickElsewhere(where)
    \/ \E href \in Hrefs, where \in { "menu", "outside" } : ClickAnchor(href, where)
    \/ \E key \in Keys : Keydown(key)
    \/ \E y \in ScrollPositions : ScrollEvent(y)
    \/ SmoothScrollArrive
    \/ ScrollFire
    \/ \E w \in Widths, h \in ViewHeights : ResizeEvent(w, h)
    \/ ResizeFire
    \/ \E e \in DOMAIN AnimatedElements : AnimFire(e)
    \/ Tick

\* the whole page
Spec == Init /\ [][Next]_vars

(* ---------- the specifications the properties are checked under ---------- *)
\* Each one keeps every action that writes the variables its properties read,
\* and every timeout callback, so that time can always advance.
\* one page layout: the first section at the top, the second right below it
PlainLayouts ==
    { l \in Layouts : l[1].offsetTop = 0 /\ l[2].offsetTop = FirstHeight }
MenuLinkLists == { << "#home", "#about" >>, << "#about", "#blog" >>, << "#" >> }

\* the mobile menu and everything that opens or closes it
InitMenu == InitWith(PlainLayouts, MenuLinkLists, { 0 }) /\ innerHeight = 4 * Grid

NextMenu ==
    \/ init
    \/ CallToggleMobileMenu
    \/ CallCloseMobileMenu
    \/ ClickToggle
    \/ \E where \in { "menu", "outside" } : ClickElsewhere(where)
    \/ \E href \in Hrefs, where \in { "menu", "outside" } : ClickAnchor(href, where)
    \/ \E key \in Keys : Keydown(key)
    \/ \E w \in Widths : ResizeEvent(w, innerHeight)
    \/ ResizeFire
    \/ \E e \in DOMAIN AnimatedElements : AnimFire(e)
    \/ Tick

SpecMenu == InitMenu /\ [][NextMenu]_vars

\* anchor clicks, the scrolling they start and the address bar
InitAnchor ==
    InitWith(PlainLayouts, MenuLinkLists, { 0 }) /\ innerHeight = 4 * Grid /\ innerWidth = 600

NextAnchor ==
    \/ init
    \/ CallToggleMobileMenu
    \/ \E href \in Hrefs, where \in { "menu", "outside" } : ClickAnchor(href, where)
    \/ \E y \in ScrollPositions : ScrollEvent(y)
    \/ SmoothScrollArrive
    \/ ScrollFire
    \/ \E e \in DOMAIN AnimatedElements : AnimFire(e)
    \/ Tick

SpecAnchor == InitAnchor /\ [][NextAnchor]_vars

\* navigation highlighting over every layout and every list of nav-links
InitNav ==
    InitWith(Layouts, LinkLists, { 0 }) /\ innerHeight = 4 * Grid /\ innerWidth = 600

NextNav ==
    \/ init
    \/ CallUpdateActiveNavLink
    \/ \E y \in ScrollPositions : ScrollEvent(y)
    \/ ScrollFire
    \/ \E e \in DOMAIN AnimatedElements : AnimFire(e)
    \/ Tick

SpecNav == InitNav /\ [][NextNav]_vars

\* reveal animations under scrolling and viewport changes
InitAnim ==
    InitWith(PlainLayouts, { << "#home", "#about" >> }, ScrollPositions) /\ innerWidth = 600

NextAnim ==
    \/ init
    \/ CallAnimateOnScroll
    \/ \E y \in ScrollPositions : ScrollEvent(y)
    \/ ScrollFire
    \/ \E h \in ViewHeights : ResizeEvent(innerWidth, h)
    \/ ResizeFire
    \/ \E e \in DOMAIN AnimatedElements : AnimFire(e)
    \/ Tick

SpecAnim == InitAnim /\ [][NextAnim]_vars

(* ====================== properties ====================== *)

\* C1: the toggle's aria-expanded is 'true' exactly when the menu container
\* carries the 'active' class, after any sequence of menu operations.
AriaMatchesClass == (ariaExpanded = "true") <=> navActive

AriaMatchesClassWitness ==
    lastOp = "resizeFire" /\ before.menu.active /\ before.menu.aria = "true"
        /\ ~navActive /\ ariaExpanded = "false"

\* C2: two calls of toggleMobileMenu() in a row give back the attribute,
\* the class and the scroll lock that were there before the first call.
ToggleTwiceRestores ==
    (lastOp = "toggle" /\ runLen = 2) => Menu = before2.menu

ToggleTwiceRestoresWitness ==
    lastOp = "toggle" /\ runLen = 2 /\ before.menu.active /\ ~before2.menu.active
        /\ before2.menu.overflow = ""

\* C3: closeMobileMenu() is idempotent: the second of two calls in a row
\* leaves the closed menu the first call left.
CloseIdempotent ==
    (lastOp = "close" /\ runLen = 2) => (Menu = before.menu /\ MenuClosed(Menu))

CloseIdempotentWitness ==
    lastOp = "close" /\ runLen = 2 /\ before2.menu.active /\ ~before.menu.active

(* ---- navigation highlighting ---- *)
InRange(sec, y) ==
    y >= sec.offsetTop - NavOffset /\ y < sec.offsetTop - NavOffset + sec.clientHeight

Containing == { i \in 1..Len(sections) : InRange(sections[i], scrollY) }
ActiveLinks == { k \in 1..Len(navLinks) : linkActive[k] }
LinksTo(id) == { k \in 1..Len(navLinks) : navLinks[k] = "#" \o id }

\* updateActiveNavLink has just run on the current scroll offset
NavUpdated == lastOp \in { "init", "update", "scrollFire" }

\* C4 (as stated): inside the range of exactly one section, exactly one
\* nav-link is active and it is the link to that section.
OneSectionOneLink ==
    (NavUpdated /\ Cardinality(Containing) = 1) =>
        \E k \in 1..Len(navLinks) :
            /\ ActiveLinks = { k }
            /\ \A i \in Containing : navLinks[k] = "#" \o sections[i].id

\* C4 (amended): inside the range of exactly one section, the active
\* nav-links are exactly the links whose href is '#' + that section's id;
\* that is one link when one nav-link carries that href.
OneSectionItsLinks ==
    (NavUpdated /\ Cardinality(Containing) = 1) =>
        \A i \in Containing :
            /\ ActiveLinks = LinksTo(sections[i].id)
            /\ Cardinality(LinksTo(sections[i].id)) = 1 => Cardinality(ActiveLinks) = 1

OneSectionItsLinksWitness ==
    /\ lastOp = "scrollFire"
    /\ Cardinality(Containing) = 1
    /\ Len(navLinks) = 2
    /\ Cardinality(ActiveLinks) = 1
    /\ \A i \in Containing : sections[i].id = "about" /\ ActiveLinks = LinksTo("about")

\* C5: outside every section's range no nav-link is active, whatever the hrefs.
NoSectionNoLink ==
    (NavUpdated /\ Containing = {}) => ActiveLinks = {}

(* ---- reveal animation ---- *)
\* C6: each decorative element has its reveal scheduled at most once;
\* the 'animated' class goes with the scheduling, a revealed element stays
\* at opacity 1, and a repeated animateOnScroll adds no second timeout.
AnimatedOnce ==
    \A e \in DOMAIN elems :
        /\ elems[e].sched <= 1
        /\ Len(elems[e].timers) <= 1
        /\ elems[e].animated <=> elems[e].sched = 1
        /\ elems[e].fired <= elems[e].sched
        /\ elems[e].fired = 1 => elems[e].opacity = "1"

AnimatedOnceWitness ==
    /\ lastOp = "animate" /\ runLen = 2
    /\ \E e \in DOMAIN elems :
          /\ elems[e].animated /\ elems[e].timers # << >> /\ elems[e].opacity = "0"
          /\ isInViewport(AnimatedElements[e], scrollY, innerHeight)

(* ---- anchors ---- *)
TargetsOf(href) == { i \in 1..Len(sections) : "#" \o sections[i].id = href }
ClickedAnchor == lastOp = "clickAnchor"

\* C7 (as stated): a click on any anchor other than '#' scrolls to the
\* target's offsetTop less the navbar height; the fragment becomes the href,
\* except for '#home', which leaves it alone.
AnchorScrolls ==
    (ClickedAnchor /\ calls.href # "#") =>
        /\ calls.scrollTo # NoCall
        /\ \E i \in TargetsOf(calls.href) :
              calls.scrollTo = sections[i].offsetTop - NavbarHeight
        /\ urlHash = IF calls.href = "#home" THEN before.urlHash ELSE calls.href

\* C7 (amended): the same for an anchor whose href names an element of the
\* document; when no element has that id the click scrolls nowhere and
\* leaves the fragment as it was.
AnchorScrollsToTarget ==
    (ClickedAnchor /\ calls.href # "#") =>
        IF TargetsOf(calls.href) # {}
        THEN /\ \E i \in TargetsOf(calls.href) :
                   /\ calls.scrollTo = sections[i].offsetTop - NavbarHeight
                   /\ scrollDest = sections[i].offsetTop - NavbarHeight
             /\ urlHash = IF calls.href = "#home" THEN before.urlHash ELSE calls.href
        ELSE /\ calls.scrollTo = NoCall
             /\ calls.pushState = NoPush
             /\ urlHash = before.urlHash
             /\ scrollY = before.scrollY

AnchorScrollsToTargetWitness ==
    /\ ClickedAnchor /\ calls.href = "#home"
    /\ before.urlHash = "#about" /\ urlHash = "#about"
    /\ before.scrollY # 0
    /\ scrollDest = 0 - NavbarHeight

\* C8: a click on an anchor with href '#' calls neither scrollTo nor
\* pushState and leaves the scroll position and the fragment as they were.
HashAnchorInert ==
    (ClickedAnchor /\ calls.href = "#") =>
        /\ calls.scrollTo = NoCall
        /\ calls.pushState = NoPush
        /\ scrollY = before.scrollY
        /\ urlHash = before.urlHash

\* C9: after a click on an anchor other than '#' the menu is closed.
AnchorClosesMenu ==
    (ClickedAnchor /\ calls.href # "#") => MenuClosed(Menu)

(* ---- resize ---- *)
\* C10: when the resize debounce fires at a width of 900 (reached from 600)
\* the menu is closed.
WideResizeCloses ==
    (lastOp = "resizeFire" /\ innerWidth = 900) => MenuClosed(Menu)

WideResizeClosesWitness ==
    /\ lastOp = "resizeFire" /\ innerWidth = 900
    /\ before.menu.active /\ before.menu.overflow = "hidden"
    /\ MenuClosed(Menu)

\* the two debounced listeners and the timeouts
InitDebounce ==
    InitWith(PlainLayouts, { << "#home", "#about" >> }, { 0 }) /\ innerHeight = 4 * Grid

NextDebounce ==
    \/ init
    \/ \E y \in ScrollPositions : ScrollEvent(y)
    \/ ScrollFire
    \/ \E w \in Widths : ResizeEvent(w, innerHeight)
    \/ ResizeFire
    \/ \E e \in DOMAIN AnimatedElements : AnimFire(e)
    \/ Tick

SpecDebounce == InitDebounce /\ [][NextDebounce]_vars

\* timeouts fire once they are due, and time goes on while none is due
FairTimers ==
    /\ WF_vars(Tick)
    /\ WF_vars(ScrollFire)
    /\ WF_vars(ResizeFire)
    /\ \A e \in DOMAIN AnimatedElements : WF_vars(AnimFire(e))

SpecDebounceFair == SpecDebounce /\ FairTimers

(* ---- debounce ---- *)
\* C11: the scroll handler runs only when 100 ms have gone by since the most
\* recent scroll event: each scroll event leaves one pending timeout, set
\* to the full wait, so the timeout due is always the one of the last event.
ScrollHandlerWaits ==
    /\ lastOp = "scrollFire" => burst.sinceScroll >= ScrollWait
    /\ Pending(scrollTimer) =>
          scrollTimer = << ScrollWait - burst.sinceScroll >>

ScrollHandlerWaitsWitness ==
    /\ lastOp = "scrollFire"
    /\ burst.scrollEvents >= 2
    /\ burst.sinceScroll = ScrollWait
    /\ ~Pending(scrollTimer)

\* the id updateActiveNavLink settles on at the current scroll offset
CurrentId ==
    IF Containing = {} THEN ""
    ELSE sections[CHOOSE i \in Containing : \A j \in Containing : j <= i].id

\* C12: a burst of scroll events gets one run of the handler, never two;
\* once the events have stopped for the full wait the run takes place
\* (unless a new scroll event comes first), and it leaves the nav-links
\* as computed from the scroll offset of that moment, the final one.
ScrollBurstSettles ==
    /\ [](burst.scrollRuns <= 1)
    /\ [](lastOp = "scrollFire" => ActiveLinks = LinksTo(CurrentId))
    /\ (burst.scrollEvents >= 1 /\ burst.scrollRuns = 0
            /\ burst.sinceScroll = ScrollWait)
         ~> (burst.scrollRuns = 1 \/ burst.sinceScroll = 0)

ScrollBurstSettlesWitness ==
    /\ lastOp = "scrollFire"
    /\ burst.scrollEvents >= 2 /\ burst.scrollRuns = 1
    /\ ActiveLinks # {} /\ ActiveLinks = LinksTo("about")

(* ---- the menu and the document's click listener ---- *)
\* C13: a click outside the menu container and outside the toggle, made
\* while the menu is open, leaves the menu closed.
OutsideClickCloses ==
    (lastOp \in { "clickElsewhere", "clickAnchor" } /\ calls.where = "outside"
        /\ before.menu.active) => MenuClosed(Menu)

OutsideClickClosesWitness ==
    /\ lastOp = "clickElsewhere" /\ calls.where = "outside"
    /\ before.menu.active /\ before.menu.overflow = "hidden"
    /\ MenuClosed(Menu)

\* the page load: any layout, any nav-links, any restored scroll offset
InitLoad == InitWith(Layouts, LinkLists, ScrollPositions)

NextLoad ==
    \/ init
    \/ \E e \in DOMAIN AnimatedElements : AnimFire(e)
    \/ Tick

SpecLoad == InitLoad /\ [][NextLoad]_vars

(* ---- initialisation ---- *)
\* C14: when init has returned, and before any scroll event or debounce
\* timeout, the active nav-links are those of the section that contains
\* the initial scroll offset and every decorative element in the viewport
\* carries 'animated'.
InitPassDone ==
    lastOp = "init" =>
        /\ phase = "ready"
        /\ ~Pending(scrollTimer) /\ burst.scrollEvents = 0 /\ burst.scrollRuns = 0
        /\ Containing # {} => ActiveLinks = LinksTo(CurrentId)
        /\ \A e \in DOMAIN elems :
              isInViewport(AnimatedElements[e], scrollY, innerHeight) => elems[e].animated

InitPassDoneWitness ==
    /\ lastOp = "init" /\ scrollY > 0
    /\ CurrentId = "about" /\ ActiveLinks # {} /\ ActiveLinks = LinksTo("about")
    /\ \E e \in DOMAIN elems :
          /\ isInViewport(AnimatedElements[e], scrollY, innerHeight)
          /\ elems[e].animated /\ elems[e].timers = << AnimDelay >>

\* C15: the two debounced listeners keep apart. Each has at most one
\* pending timeout; a scroll event resets the scroll timeout and leaves the
\* resize timeout alone, a resize event the other way round; neither
\* handler runs twice for one burst, and a timeout that has come due is
\* followed by its handler's run unless a new event of its kind resets it.
DebouncesIndependent ==
    /\ [](Len(scrollTimer) <= 1 /\ Len(resizeTimer) <= 1)
    /\ [][/\ scrollY' # scrollY =>
               scrollTimer' = << ScrollWait >> /\ resizeTimer' = resizeTimer
          /\ innerWidth' # innerWidth =>
               resizeTimer' = << ResizeWait >> /\ scrollTimer' = scrollTimer]_vars
    /\ [](burst.scrollRuns <= 1 /\ burst.resizeRuns <= 1)
    /\ Expired(scrollTimer) ~> (burst.scrollRuns = 1 \/ burst.sinceScroll = 0)
    /\ Expired(resizeTimer) ~> (burst.resizeRuns = 1 \/ resizeTimer = << ResizeWait >>)

DebouncesIndependentWitness ==
    /\ lastOp = "scroll" /\ burst.scrollEvents >= 2
    /\ scrollTimer = << ScrollWait >>
    /\ Pending(resizeTimer) /\ Head(resizeTimer) < ResizeWait
    /\ burst.resizeRuns = 0

SpecAnimFair == SpecAnim /\ FairTimers

\* C16: an element that animateOnScroll has marked and hidden keeps its
\* timeout pending until it fires, whatever else happens, and so ends up
\* with opacity 1 and no offset.
RevealAlwaysApplied ==
    /\ [](\A e \in DOMAIN elems :
            (elems[e].animated /\ elems[e].opacity = "0") => elems[e].timers # << >>)
    /\ [][\A e \in DOMAIN elems :
            (elems[e].timers # << >> /\ elems'[e].timers = << >>) =>
                (elems'[e].opacity = "1" /\ elems'[e].transform = "translateY(0)")]_vars
    /\ \A e \in DOMAIN AnimatedElements :
            elems[e].animated ~> (elems[e].opacity = "1")

RevealAlwaysAppliedWitness ==
    /\ lastOp = "animFire"
    /\ \E e \in DOMAIN elems :
          /\ elems[e].fired = 1 /\ elems[e].opacity = "1" /\ elems[e].timers = << >>
          /\ ~isInViewport(AnimatedElements[e], scrollY, innerHeight)

\* C17: where the ranges of several sections overlap, the last of them in
\* document order decides: the active nav-links are exactly the links to
\* it, and no link to an earlier matching section is active.
LastSectionWins ==
    (NavUpdated /\ Cardinality(Containing) >= 2) =>
        \E i \in Containing :
            /\ \A j \in Containing : j <= i
            /\ ActiveLinks = LinksTo(sections[i].id)
            /\ \A j \in Containing \ { i } : ActiveLinks \cap LinksTo(sections[j].id) = {}

LastSectionWinsWitness ==
    /\ lastOp = "scrollFire"
    /\ Containing = { 1, 2 }
    /\ LinksTo("home") # {} /\ LinksTo("about") # {}
    /\ ActiveLinks = LinksTo("about")

\* C19: starting from the closed, unlocked menu, the body is scroll-locked
\* exactly when the menu is open.
LockMatchesMenu == (bodyOverflow = "hidden") <=> navActive

LockMatchesMenuWitness ==
    /\ lastOp = "keydown" /\ calls.where = "Escape"
    /\ before.menu.active /\ before.menu.overflow = "hidden"
    /\ ~navActive /\ bodyOverflow = ""

\* C20: one click on the toggle while the menu is closed leaves it open:
\* the document's listener, which runs after the toggle's, does not close it.
ToggleClickOpens ==
    (lastOp = "clickToggle" /\ ~before.menu.active) =>
        (navActive /\ ariaExpanded = "true" /\ bodyOverflow = "hidden")

ToggleClickOpensWitness ==
    /\ lastOp = "clickToggle" /\ MenuClosed(before.menu)
    /\ navActive /\ ariaExpanded = "true" /\ bodyOverflow = "hidden"

\* the menu's listeners in documents that may lack the toggle, the menu
\* container or the footer's year element
InitAbsent ==
    /\ InitBase(PlainLayouts, MenuLinkLists, { 0 })
    /\ innerHeight = 4 * Grid
    /\ present \in Presences

SpecAbsent == InitAbsent /\ [][NextMenu]_vars

(* ---- missing elements ---- *)
\* C18: with an element missing, no listener and no step of init ends in an
\* error, and a step that would have used the missing element changes nothing.
AbsentIsSilent ==
    present # Whole =>
        /\ ~thrown
        /\ (~present.toggle \/ ~present.container) => MenuClosed(Menu)
        /\ ~present.year => yearText = ""

====
